---------------------------- MODULE Spec2Model ----------------------------
(***************************************************************************)
(* Model of the Thruster system plugin, src/systems/thruster/Thruster.cc.  *)
(*                                                                         *)
(* Two threads act on one ThrusterPrivateData object: the simulation       *)
(* thread (Configure, then PreUpdate and PostUpdate once per iteration)    *)
(* and the transport thread that delivers command messages to OnCmdThrust  *)
(* or OnCmdAngVel.  PreUpdate and the callbacks are cut where the code     *)
(* takes and releases the mutex, so that the interleavings the lock        *)
(* allows are those of the model.                                          *)
(*                                                                         *)
(* Numbers.  A C++ double is modelled on the integer grid: division        *)
(* rounds toward zero and sqrt rounds down.  The three non-finite doubles  *)
(* are kept apart from the finite ones: a value that can be non-finite (a  *)
(* message payload, the propeller angular velocity and what is computed    *)
(* from it) is a record [fin, v], see Fin, NaN, PosInf, NegInf.  Thrust,   *)
(* the thrust coefficient and the configuration values are always finite   *)
(* for the configurations modelled (propellerDiameter # 0) and are plain   *)
(* integers.                                                               *)
(*                                                                         *)
(* Units.  The defaults propellerDiameter = 0.02 m and fluidDensity =      *)
(* 1000 kg/m^3 give fluidDensity * propellerDiameter^4 = 1/6250, so the    *)
(* grid takes the diameter in units of 0.02 m, the density in units of     *)
(* 1000 kg/m^3 and, to keep the two conversion formulas as written, a      *)
(* thrust in units of 1/6250 N (see Newtons).  Commands and the bounds     *)
(* cmdMin, cmdMax stay in the units of the message (N or rad/s); angular   *)
(* velocities are in rad/s.  Three quantities need a finer grid and are    *)
(* kept in tenths: the measured angular rate of the link (and so the       *)
(* angular error, whose dead band is 0.1), the PID gains (default p = 0.1) *)
(* and the wake fraction (default 0.2).  The PID command, a torque, is     *)
(* then in hundredths.                                                     *)
(***************************************************************************)
EXTENDS Integers, Sequences, FiniteSets, TLC

VARIABLES
    \* ---- ThrusterPrivateData (lines 51-168)
    modelEntity,
    linkEntity,
    jointAxis,            \* length of the joint axis vector: 0 until read
    jointEntity,
    opmode,               \* "ForceCmd" or "AngVelCmd"
    mtx,                  \* holder of the mutex: "free", "sim" or "cmd"
    thrust,               \* commanded thrust, in 1/6250 N
    propellerAngVel,      \* desired propeller angular velocity (a double)
    enabled,              \* battery gate
    propellerController,  \* the PID: gains, limits and its running errors
    velocityControl,
    cmdMax,
    cmdMin,
    thrustCoefficient,
    thrustCoefficientSet,
    wakeFraction,         \* in tenths
    alpha1,
    alpha2,
    fluidDensity,
    propellerDiameter,
    linearVelocity,
    subscribed,           \* the callback the node subscribed: "none",
                          \* "OnCmdThrust" or "OnCmdAngVel"
    \* ---- the simulation thread
    simPc,                \* position of the simulation thread
    desiredThrust,        \* PreUpdate's locals (lines 545-546)
    desiredPropellerAngVel,
    \* ---- the transport thread
    cmdPc,                \* "idle"; inside a callback "locked", then "stored"
    msg,                  \* payload of the message being handled
    \* ---- the host: entity component manager and what it was asked to do
    jointVelocityCmd,     \* JointVelocityCmd component of the joint: <<>> or <<v>>
    battery,              \* BatterySoC components the last PostUpdate saw
    step,                 \* what the current (or last) PreUpdate call did
    \* ---- history
    sdf,                  \* the <plugin> element Configure was given
    jointInModel,         \* whether the model has the joint sdf names
    lastCmd,              \* payload of the last command handled, <<>> if none
    cmdFresh,             \* TRUE when a command was handled since the
                          \* last snapshot PreUpdate took
    postRan,              \* TRUE once a PostUpdate has run
    prevStep              \* the PreUpdate call before the current one:
                          \* "none", "ran", "paused" or "disabled"

privateVars == <<modelEntity, linkEntity, jointAxis, jointEntity, opmode, mtx, thrust, propellerAngVel, enabled,
                 propellerController, velocityControl, cmdMax, cmdMin,
                 thrustCoefficient, thrustCoefficientSet, wakeFraction,
                 alpha1, alpha2, fluidDensity, propellerDiameter,
                 linearVelocity, subscribed>>
simVars == <<simPc, desiredThrust, desiredPropellerAngVel>>
cmdVars == <<cmdPc, msg>>
hostVars == <<jointVelocityCmd, battery, step>>
histVars == <<sdf, jointInModel, lastCmd, cmdFresh, postRan, prevStep>>
vars == <<privateVars, simVars, cmdVars, hostVars, histVars>>

\* What Configure leaves fixed for the rest of the run.
configVars == <<modelEntity, linkEntity, jointAxis, jointEntity, opmode, velocityControl, cmdMax, cmdMin, thrustCoefficientSet,
                wakeFraction, alpha1, alpha2, fluidDensity, propellerDiameter,
                subscribed, sdf, jointInModel>>

---------------------------------------------------------------------------
(* Doubles *)

Fin(n) == [fin |-> TRUE, v |-> n]
NaN == [fin |-> FALSE, v |-> 0]
PosInf == [fin |-> FALSE, v |-> 1]
NegInf == [fin |-> FALSE, v |-> -1]

IsNaN(d) == ~d.fin /\ d.v = 0
IsInf(d) == ~d.fin /\ d.v # 0

Abs(n) == IF n < 0 THEN -n ELSE n
Min(a, b) == IF a < b THEN a ELSE b
Max(a, b) == IF a < b THEN b ELSE a
Sign(n) == IF n > 0 THEN 1 ELSE IF n < 0 THEN -1 ELSE 0

\* a / b on the grid, b # 0: rounds toward zero.
Div(a, b) == Sign(a) * Sign(b) * (Abs(a) \div Abs(b))

\* sqrt on the grid: the largest r with r * r <= n.
RECURSIVE SqrtBetween(_, _, _)
SqrtBetween(n, lo, hi) ==
    IF lo >= hi THEN lo
    ELSE LET mid == (lo + hi + 1) \div 2
         IN  IF mid * mid <= n THEN SqrtBetween(n, mid, hi)
             ELSE SqrtBetween(n, lo, mid - 1)
Sqrt(n) == SqrtBetween(n, 0, Min(n, 40000))

Pow4(n) == n * n * n * n

---------------------------------------------------------------------------
(* The <plugin> element.  An element is <<>> when absent and <<value>>     *)
(* when present.                                                           *)

HasElement(doc, name) == doc[name] # <<>>

\* sdf::Element::Get<T>(name): the element's value, and a default-constructed
\* T (0, false) when the element is missing.
Get(doc, name) == IF doc[name] # <<>> THEN doc[name][1] ELSE 0

\* The plugin element with only <joint_name>.
PlainSdf ==
    [joint_name |-> <<"propeller_joint">>, thrust_coefficient |-> <<>>,
     propeller_diameter |-> <<>>, fluid_density |-> <<>>,
     use_angvel_cmd |-> <<>>, wake_fraction |-> <<>>, alpha_1 |-> <<>>,
     alpha_2 |-> <<>>, max_thrust_cmd |-> <<>>, min_thrust_cmd |-> <<>>,
     velocity_control |-> <<>>, p_gain |-> <<>>, i_gain |-> <<>>,
     d_gain |-> <<>>]

\* The plugin elements Configure is given.  Diameter and density are in the
\* grid's units, gains and wake fraction in tenths.
ConversionSdfs ==
    { [PlainSdf EXCEPT !.thrust_coefficient = tc, !.use_angvel_cmd = m,
                       !.velocity_control = vc]
        : tc \in {<<1>>, <<-1>>}, m \in {<<>>, <<TRUE>>},
          vc \in {<<>>, <<TRUE>>} }
    \cup
    { [PlainSdf EXCEPT !.alpha_1 = a1, !.alpha_2 = a2, !.use_angvel_cmd = m,
                       !.velocity_control = vc, !.wake_fraction = <<0>>]
        : a1 \in {<<>>, <<4>>}, a2 \in {<<>>, <<1>>}, m \in {<<>>, <<TRUE>>},
          vc \in {<<>>, <<TRUE>>} }
    \cup
    { [PlainSdf EXCEPT !.propeller_diameter = <<2>>, !.fluid_density = <<2>>,
                       !.wake_fraction = <<5>>, !.alpha_2 = <<1>>,
                       !.use_angvel_cmd = <<FALSE>>] }
BoundsSdfs ==
    { [PlainSdf EXCEPT !.max_thrust_cmd = mx, !.min_thrust_cmd = mn]
        : mx \in {<<>>, <<40>>, <<-2000>>},
          mn \in {<<>>, <<-40>>, <<0>>, <<2000>>} }
GainSdfs ==
    { [PlainSdf EXCEPT !.p_gain = p, !.i_gain = i, !.d_gain = d]
        : p \in {<<>>, <<0>>, <<5>>}, i \in {<<>>, <<3>>},
          d \in {<<>>, <<3>>} }
NoJointNameSdfs ==
    { [PlainSdf EXCEPT !.joint_name = <<>>, !.max_thrust_cmd = mx,
                       !.velocity_control = vc]
        : mx \in {<<>>, <<40>>}, vc \in {<<>>, <<TRUE>>} }
SdfDocs == ConversionSdfs \cup BoundsSdfs \cup GainSdfs \cup NoJointNameSdfs

---------------------------------------------------------------------------
(* ThrusterPrivateData's conversions.  `this` is a record with the fields  *)
(* of the object the call reads.                                           *)

This ==
    [thrust |-> thrust, propellerAngVel |-> propellerAngVel,
     thrustCoefficient |-> thrustCoefficient,
     thrustCoefficientSet |-> thrustCoefficientSet,
     wakeFraction |-> wakeFraction, alpha1 |-> alpha1, alpha2 |-> alpha2,
     fluidDensity |-> fluidDensity, propellerDiameter |-> propellerDiameter,
     linearVelocity |-> linearVelocity, cmdMin |-> cmdMin, cmdMax |-> cmdMax]

\* A number of newtons as a thrust of the grid (units of 1/6250 N).
Newtons(n) == 6250 * n

\* gz::math::fixnan: 0 for a NaN or an infinite value, the value otherwise.
fixnan(d) == IF d.fin THEN d.v ELSE 0

\* A clamp that forgets the lower bound.
clampUpperOnly(v, min, max) == Min(v, max)

\* gz::math::clamp: std::max(std::min(v, max), min).
clamp(v, min, max) == Max(Min(v, max), min)

\* std::abs(d) > std::numeric_limits<double>::epsilon(): on the grid every
\* nonzero magnitude is above epsilon; a NaN compares false.
AboveEpsilon(d) == IF d.fin THEN Abs(d.v) > 0 ELSE IsInf(d)

\* UpdateThrustCoefficient: the new thrustCoefficient.  Called only with
\* |propellerAngVel| above epsilon, so the divisor is nonzero and no NaN; an
\* infinite divisor gives a quotient of zero.  wakeFraction is in tenths.
UpdateThrustCoefficient(this) ==
    this.alpha1 + this.alpha2 *
        (IF this.propellerAngVel.fin
         THEN Div((10 - this.wakeFraction) * this.linearVelocity,
                  10 * this.propellerAngVel.v * this.propellerDiameter)
         ELSE 0)

\* A conversion that recomputes the coefficient also when the configuration
\* fixed it.
ThrustToAngularVecAlwaysUpdates(this, _thrust) ==
    LET c == IF AboveEpsilon(this.propellerAngVel)
             THEN UpdateThrustCoefficient(this)
             ELSE this.thrustCoefficient
        den == this.fluidDensity * c * Pow4(this.propellerDiameter)
        sgn == IF _thrust * c > 0 THEN 1 ELSE -1
    IN  [ret |-> IF den # 0 THEN Fin(sgn * Sqrt(Abs(Div(_thrust, den))))
                 ELSE IF _thrust = 0 THEN NaN
                 ELSE [fin |-> FALSE, v |-> sgn],
         thrustCoefficient |-> c]

\* A conversion without the sign of line 477.
ThrustToAngularVecUnsigned(this, _thrust) ==
    LET c == IF ~this.thrustCoefficientSet
                /\ AboveEpsilon(this.propellerAngVel)
             THEN UpdateThrustCoefficient(this)
             ELSE this.thrustCoefficient
        den == this.fluidDensity * c * Pow4(this.propellerDiameter)
    IN  [ret |-> IF den # 0 THEN Fin(Sqrt(Abs(Div(_thrust, den))))
                 ELSE IF _thrust = 0 THEN NaN ELSE PosInf,
         thrustCoefficient |-> c]

\* ThrustToAngularVec(_thrust): the angular velocity returned (ret) and the
\* thrustCoefficient the call leaves behind.
ThrustToAngularVec(this, _thrust) ==
    LET c == IF ~this.thrustCoefficientSet
                /\ AboveEpsilon(this.propellerAngVel)
             THEN UpdateThrustCoefficient(this)
             ELSE this.thrustCoefficient
        den == this.fluidDensity * c * Pow4(this.propellerDiameter)
        sgn == IF _thrust * c > 0 THEN 1 ELSE -1
    IN  [ret |-> IF den # 0 THEN Fin(sgn * Sqrt(Abs(Div(_thrust, den))))
                 ELSE IF _thrust = 0 THEN NaN        \* sqrt(abs(0/0))
                 ELSE [fin |-> FALSE, v |-> sgn],    \* sqrt(abs(x/0)) * sgn
         thrustCoefficient |-> c]

\* A conversion that squares the angular velocity and so loses its sign.
AngularVelToThrustSquared(this, _angVel) ==
    this.thrustCoefficient * Pow4(this.propellerDiameter)
        * _angVel * _angVel * this.fluidDensity

\* AngularVelToThrust(_angVel), _angVel finite.
AngularVelToThrust(this, _angVel) ==
    this.thrustCoefficient * Pow4(this.propellerDiameter)
        * Abs(_angVel) * _angVel * this.fluidDensity

\* HasSufficientBattery: Each<BatterySoC> visits the components in order;
\* comps is the sequence of [parent, soc] it visits.
\* A visit in which the last reading of the owner decides.
RECURSIVE EachBatterySoCLastWins(_, _, _)
EachBatterySoCLastWins(comps, owner, result) ==
    IF comps = <<>> THEN result
    ELSE EachBatterySoCLastWins(Tail(comps), owner,
            IF Head(comps).parent = owner THEN Head(comps).soc > 0
            ELSE result)

RECURSIVE EachBatterySoC(_, _, _)
EachBatterySoC(comps, owner, result) ==
    IF comps = <<>> THEN result
    ELSE EachBatterySoC(Tail(comps), owner,
            IF Head(comps).parent = owner /\ Head(comps).soc <= 0
            THEN FALSE ELSE result)

\* A gate that starts from the enabled flag, so never opens again.
HasSufficientBatteryLatched(comps) ==
    EachBatterySoC(comps, modelEntity, enabled)

HasSufficientBattery(comps) == EachBatterySoC(comps, modelEntity, TRUE)

---------------------------------------------------------------------------
(* gz::math::PID as the plugin uses it.  Gains are in tenths, the error in *)
(* tenths of rad/s, the integral error and the command in hundredths; the  *)
(* limits are the doubles Init was given.                                  *)

\* A default-constructed PID (the member propellerController, line 100).
DefaultPID ==
    [pGain |-> 0, iGain |-> 0, dGain |-> 0, iMax |-> -1, iMin |-> 0,
     cmdMax |-> Fin(-1), cmdMin |-> Fin(0), cmdOffset |-> 0,
     pErrLast |-> 0, iErr |-> 0]

\* PID::Init: sets gains and limits and resets the errors.
PIDInit(p, i, d, iMax, iMin, cMax, cMin, cmdOffset) ==
    [pGain |-> p, iGain |-> i, dGain |-> d, iMax |-> iMax, iMin |-> iMin,
     cmdMax |-> cMax, cmdMin |-> cMin, cmdOffset |-> cmdOffset,
     pErrLast |-> 0, iErr |-> 0]

\* PID::Update(_error, _dt): the command returned (cmd) and the PID after
\* the call.  A zero _dt or a non-finite error returns 0 and changes
\* nothing.  A limit pair applies only when max >= min.
PIDUpdate(pid, error, dt) ==
    IF dt = 0 \/ ~error.fin THEN [cmd |-> 0, pid |-> pid]
    ELSE
    LET pErr == error.v
        pTerm == pid.pGain * pErr
        iRaw == pid.iErr + pid.iGain * dt * pErr
        iErr == IF pid.iMax >= pid.iMin
                THEN clamp(iRaw, 100 * pid.iMin, 100 * pid.iMax) ELSE iRaw
        dErr == Div(pErr - pid.pErrLast, dt)
        dTerm == pid.dGain * dErr
        raw == 100 * pid.cmdOffset - pTerm - iErr - dTerm
        cmd == IF pid.cmdMax.fin /\ pid.cmdMin.fin
                  /\ pid.cmdMax.v >= pid.cmdMin.v
               THEN clamp(raw, 100 * pid.cmdMin.v, 100 * pid.cmdMax.v)
               ELSE raw
    IN  [cmd |-> cmd,
         pid |-> [pid EXCEPT !.pErrLast = pErr, !.iErr = iErr]]

---------------------------------------------------------------------------
(* Construction *)

\* What a PreUpdate call did: nothing yet.  ran: it got past the two early
\* returns; cmd, fresh: lastCmd and cmdFresh when it took its snapshot;
\* measured: the angular rate it read; then its calls of pub.Publish,
\* Link::AddWorldWrench, PID::Update and its writes of JointVelocityCmd.
NoStep ==
    [ran |-> FALSE, paused |-> FALSE, cmd |-> <<>>, fresh |-> FALSE,
     measured |-> <<>>, published |-> <<>>, wrench |-> <<>>,
     pidUpdate |-> <<>>, velocityCmd |-> <<>>]

\* Thruster::Thruster: make_unique value-initialises the private data, so
\* the entities are kNullEntity and the joint axis is the zero vector; the
\* other members take their default member initialisers.
Init ==
    /\ modelEntity = "null"
    /\ linkEntity = "null"
    /\ jointAxis = 0
    /\ jointEntity = "null"
    /\ opmode = "ForceCmd"
    /\ mtx = "free"
    /\ thrust = 0
    /\ propellerAngVel = Fin(0)
    /\ enabled = TRUE
    /\ propellerController = DefaultPID
    /\ velocityControl = FALSE
    /\ cmdMax = 1000
    /\ cmdMin = -1000
    /\ thrustCoefficient = 1
    /\ thrustCoefficientSet = FALSE
    /\ wakeFraction = 2
    /\ alpha1 = 1
    /\ alpha2 = 0
    /\ fluidDensity = 1
    /\ propellerDiameter = 1
    /\ linearVelocity = 0
    /\ subscribed = "none"
    /\ simPc = "Configure"
    /\ desiredThrust = 0
    /\ desiredPropellerAngVel = Fin(0)
    /\ cmdPc = "idle"
    /\ msg = Fin(0)
    /\ jointVelocityCmd = <<>>
    /\ battery = <<>>
    /\ step = NoStep
    /\ sdf = PlainSdf
    /\ jointInModel = FALSE
    /\ lastCmd = <<>>
    /\ cmdFresh = FALSE
    /\ postRan = FALSE
    /\ prevStep = "none"

---------------------------------------------------------------------------
(* Thruster::Configure (lines 178-434) *)

\* Lines 205-264: the elements read before the joint is looked up.
\* The object after them, as a record like This.
ConfigureRead(doc) ==
    [This EXCEPT
       !.thrustCoefficient =
          IF HasElement(doc, "thrust_coefficient")
          THEN Get(doc, "thrust_coefficient") ELSE @,
       !.thrustCoefficientSet =
          IF HasElement(doc, "thrust_coefficient") THEN TRUE ELSE @,
       !.propellerDiameter =
          IF HasElement(doc, "propeller_diameter")
          THEN Get(doc, "propeller_diameter") ELSE @,
       !.fluidDensity =
          IF HasElement(doc, "fluid_density")
          THEN Get(doc, "fluid_density") ELSE @,
       !.wakeFraction =
          IF HasElement(doc, "wake_fraction")
          THEN Get(doc, "wake_fraction") ELSE @,
       !.alpha1 = IF HasElement(doc, "alpha_1") THEN Get(doc, "alpha_1") ELSE @,
       !.alpha2 = IF HasElement(doc, "alpha_2") THEN Get(doc, "alpha_2") ELSE @]

\* Lines 224-230.
ConfigureOpmode(doc) ==
    IF HasElement(doc, "use_angvel_cmd")
    THEN (IF Get(doc, "use_angvel_cmd") = TRUE THEN "AngVelCmd" ELSE "ForceCmd")
    ELSE opmode

\* Bounds taken as supplied, without the comparison of line 377.
ConfigureBoundsUnchecked(doc) ==
    <<IF HasElement(doc, "min_thrust_cmd")
      THEN Get(doc, "min_thrust_cmd") ELSE cmdMin,
      IF HasElement(doc, "max_thrust_cmd")
      THEN Get(doc, "max_thrust_cmd") ELSE cmdMax>>

\* Lines 366-387: the bounds <<cmdMin, cmdMax>> Configure leaves.
ConfigureBounds(doc) ==
    LET maxThrustCmd == IF HasElement(doc, "max_thrust_cmd")
                        THEN Get(doc, "max_thrust_cmd") ELSE cmdMax
        minThrustCmd == IF HasElement(doc, "min_thrust_cmd")
                        THEN Get(doc, "min_thrust_cmd") ELSE cmdMin
    IN  IF maxThrustCmd < minThrustCmd THEN <<cmdMin, cmdMax>>
        ELSE <<minThrustCmd, maxThrustCmd>>

\* Lines 389-392.
ConfigureVelocityControl(doc) ==
    IF HasElement(doc, "velocity_control")
    THEN Get(doc, "velocity_control") = TRUE ELSE velocityControl

\* Gains read with the three presence checks the same way round.
ConfigureGainsWhenPresent(doc) ==
    <<IF HasElement(doc, "p_gain") THEN Get(doc, "p_gain") ELSE 1,
      IF HasElement(doc, "i_gain") THEN Get(doc, "i_gain") ELSE 0,
      IF HasElement(doc, "d_gain") THEN Get(doc, "d_gain") ELSE 0>>

\* Lines 398-418: the gains <<p, i, d>> passed to the PID, in tenths.
\* i_gain and d_gain are read when the element is NOT there.
ConfigureGains(doc) ==
    LET p == IF HasElement(doc, "p_gain") THEN Get(doc, "p_gain") ELSE 1
        i == IF ~HasElement(doc, "i_gain") THEN Get(doc, "i_gain") ELSE 0
        d == IF ~HasElement(doc, "d_gain") THEN Get(doc, "d_gain") ELSE 0
    IN  <<p, i, d>>

\* Lines 394-429: the PID and the thrustCoefficient the two calls of
\* ThrustToAngularVec leave, for the object `this` with its bounds set.
ConfigurePID(doc, this) ==
    LET hi == ThrustToAngularVec(this, Newtons(this.cmdMax))
        this2 == [this EXCEPT !.thrustCoefficient = hi.thrustCoefficient]
        lo == ThrustToAngularVec(this2, Newtons(this.cmdMin))
        g == ConfigureGains(doc)
    IN  [pid |-> PIDInit(g[1], g[2], g[3], 1, -1, hi.ret, lo.ret, 0),
         thrustCoefficient |-> lo.thrustCoefficient]

Configure(doc, found) ==
    /\ simPc = "Configure"
    /\ simPc' = "PreUpdate"
    /\ sdf' = doc
    /\ jointInModel' = found
    /\ modelEntity' = "model"
    /\ UNCHANGED <<mtx, thrust, propellerAngVel, enabled, linearVelocity,
                   desiredThrust, desiredPropellerAngVel, cmdVars, hostVars,
                   lastCmd, cmdFresh, postRan, prevStep>>
    /\ IF ~HasElement(doc, "joint_name")
       THEN \* line 201
            UNCHANGED <<linkEntity, jointAxis, jointEntity, opmode,
                        propellerController, velocityControl, cmdMax, cmdMin,
                        thrustCoefficient, thrustCoefficientSet, wakeFraction,
                        alpha1, alpha2, fluidDensity, propellerDiameter,
                        subscribed>>
       ELSE
       LET read == ConfigureRead(doc)
       IN  /\ thrustCoefficientSet' = read.thrustCoefficientSet
           /\ propellerDiameter' = read.propellerDiameter
           /\ fluidDensity' = read.fluidDensity
           /\ wakeFraction' = read.wakeFraction
           /\ alpha1' = read.alpha1
           /\ alpha2' = read.alpha2
           /\ opmode' = ConfigureOpmode(doc)
           /\ IF ~found
              THEN \* line 278: JointByName returned kNullEntity
                   /\ thrustCoefficient' = read.thrustCoefficient
                   /\ UNCHANGED <<linkEntity, jointAxis, jointEntity,
                                  propellerController, velocityControl,
                                  cmdMax, cmdMin, subscribed>>
              ELSE
              LET bounds == ConfigureBounds(doc)
                  vc == ConfigureVelocityControl(doc)
                  pid == ConfigurePID(doc, [read EXCEPT !.cmdMin = bounds[1],
                                                        !.cmdMax = bounds[2]])
              IN  /\ jointEntity' = "joint"
                  /\ jointAxis' = 1
                  /\ linkEntity' = "link"
                  /\ subscribed' = IF ConfigureOpmode(doc) = "ForceCmd"
                                   THEN "OnCmdThrust" ELSE "OnCmdAngVel"
                  /\ cmdMin' = bounds[1]
                  /\ cmdMax' = bounds[2]
                  /\ velocityControl' = vc
                  /\ propellerController' =
                        IF vc THEN propellerController ELSE pid.pid
                  /\ thrustCoefficient' =
                        IF vc THEN read.thrustCoefficient
                        ELSE pid.thrustCoefficient

---------------------------------------------------------------------------
(* What the host and the transport hand to the plugin *)

\* Most BatterySoC components in the entity component manager.
MaxBatteries == 2

\* Payloads of the command messages.
CmdPayloads ==
    {NaN, PosInf, NegInf, Fin(10), Fin(-10), Fin(2000), Fin(-2000)}

\* Speeds of the link (WorldLinearVelocity's length), in the grid's unit of
\* length per second (0.02 m/s).
LinearVelocities == {0, 10}

\* The measured angular rate of the link about the axis is drawn around the
\* desired one: these are the differences, in tenths of rad/s.
RateOffsets == {-2, -1, 0, 1, 2}

\* UpdateInfo::dt of an unpaused iteration, in seconds.
StepSizes == {1}

BatteryComponents == [parent : {"model", "other"}, soc : {-1, 0, 1}]
BatterySeqs ==
    UNION { [1..n -> BatteryComponents] : n \in 0..MaxBatteries }

\* The rates WorldAngularVelocity can report when the step wants `want`.
CurrentAngulars(want, offsets) ==
    IF want.fin THEN { 10 * want.v + o : o \in offsets } ELSE {0}

---------------------------------------------------------------------------
(* Thruster::PreUpdate (lines 524-608) *)

\* An early return that forgets the pause, and one that forgets the flag.
ReturnsEarlyDisabledOnly(paused) == ~enabled
ReturnsEarlyPausedOnly(paused) == paused

\* Lines 528-534: the two early returns.
ReturnsEarly(paused) == paused \/ ~enabled

\* Lines 528-543: the two early returns, then the pose queries.
PreUpdate(paused) ==
    /\ simPc = "PreUpdate"
    /\ step' = [NoStep EXCEPT !.paused = paused,
                              !.ran = ~ReturnsEarly(paused)]
    /\ prevStep' = IF ~postRan THEN "none"
                   ELSE IF step.ran THEN "ran"
                   ELSE IF step.paused THEN "paused" ELSE "disabled"
    /\ simPc' = IF ReturnsEarly(paused) THEN "PostUpdate" ELSE "Lock"
    /\ UNCHANGED <<privateVars, desiredThrust, desiredPropellerAngVel,
                   cmdVars, jointVelocityCmd, battery, sdf, jointInModel,
                   lastCmd, cmdFresh, postRan>>

\* A snapshot that does not wait for the mutex.
PreUpdateLockNoWait ==
    /\ simPc = "Lock"
    /\ mtx' = "sim"
    /\ simPc' = "Locked"
    /\ UNCHANGED <<modelEntity, linkEntity, jointAxis, jointEntity, opmode,
                   thrust, propellerAngVel, enabled, propellerController,
                   velocityControl, cmdMax, cmdMin, thrustCoefficient,
                   thrustCoefficientSet, wakeFraction, alpha1, alpha2,
                   fluidDensity, propellerDiameter, linearVelocity,
                   subscribed, desiredThrust, desiredPropellerAngVel,
                   cmdVars, hostVars, histVars>>

\* Line 548: std::lock_guard takes the mutex.
PreUpdateLock ==
    /\ simPc = "Lock"
    /\ mtx = "free"
    /\ mtx' = "sim"
    /\ simPc' = "Locked"
    /\ UNCHANGED <<modelEntity, linkEntity, jointAxis, jointEntity, opmode,
                   thrust, propellerAngVel, enabled, propellerController,
                   velocityControl, cmdMax, cmdMin, thrustCoefficient,
                   thrustCoefficientSet, wakeFraction, alpha1, alpha2,
                   fluidDensity, propellerDiameter, linearVelocity,
                   subscribed, desiredThrust, desiredPropellerAngVel,
                   cmdVars, hostVars, histVars>>

\* A read that consumes the command: the stored thrust is reset.
PreUpdateLockedConsumes ==
    /\ simPc = "Locked"
    /\ desiredThrust' = thrust
    /\ thrust' = 0
    /\ simPc' = "Derive"
    /\ step' = [step EXCEPT !.cmd = lastCmd, !.fresh = cmdFresh]
    /\ cmdFresh' = FALSE
    /\ UNCHANGED <<modelEntity, linkEntity, jointAxis, jointEntity, opmode,
                   mtx, propellerAngVel, enabled, propellerController,
                   velocityControl, cmdMax, cmdMin, thrustCoefficient,
                   thrustCoefficientSet, wakeFraction, alpha1, alpha2,
                   fluidDensity, propellerDiameter, linearVelocity,
                   subscribed, desiredPropellerAngVel, cmdVars,
                   jointVelocityCmd, battery, sdf, jointInModel, lastCmd,
                   postRan, prevStep>>

\* Line 549: the stored thrust is read.
PreUpdateLocked ==
    /\ simPc = "Locked"
    /\ desiredThrust' = thrust
    /\ simPc' = "Derive"
    /\ step' = [step EXCEPT !.cmd = lastCmd, !.fresh = cmdFresh]
    /\ cmdFresh' = FALSE
    /\ UNCHANGED <<privateVars, desiredPropellerAngVel, cmdVars,
                   jointVelocityCmd, battery, sdf, jointInModel, lastCmd,
                   postRan, prevStep>>

\* A snapshot whose lock outlives its scope.
PreUpdateDeriveKeepsLock ==
    /\ simPc = "Derive"
    /\ LET r == ThrustToAngularVec(This, thrust)
       IN  /\ propellerAngVel' = r.ret
           /\ thrustCoefficient' = r.thrustCoefficient
           /\ desiredPropellerAngVel' = r.ret
    /\ simPc' = "Control"
    /\ UNCHANGED <<modelEntity, linkEntity, jointAxis, jointEntity, opmode,
                   mtx, thrust, enabled, propellerController,
                   velocityControl, cmdMax, cmdMin, thrustCoefficientSet,
                   wakeFraction, alpha1, alpha2, fluidDensity,
                   propellerDiameter, linearVelocity, subscribed,
                   desiredThrust, cmdVars, hostVars, histVars>>

\* Lines 550-553: the angular velocity is derived from the stored thrust
\* and read back, and the lock's scope ends.
PreUpdateDerive ==
    /\ simPc = "Derive"
    /\ LET r == ThrustToAngularVec(This, thrust)
       IN  /\ propellerAngVel' = r.ret
           /\ thrustCoefficient' = r.thrustCoefficient
           /\ desiredPropellerAngVel' = r.ret
    /\ mtx' = "free"
    /\ simPc' = "Control"
    /\ UNCHANGED <<modelEntity, linkEntity, jointAxis, jointEntity, opmode,
                   thrust, enabled, propellerController, velocityControl,
                   cmdMax, cmdMin, thrustCoefficientSet, wakeFraction,
                   alpha1, alpha2, fluidDensity, propellerDiameter,
                   linearVelocity, subscribed, desiredThrust, cmdVars,
                   hostVars, histVars>>

\* currentAngular - desiredPropellerAngVel, in tenths of rad/s.
AngularError(currentAngular, want) ==
    IF want.fin THEN Fin(currentAngular - 10 * want.v)
    ELSE IF IsNaN(want) THEN NaN
    ELSE [fin |-> FALSE, v |-> -want.v]

\* abs(angularError) > 0.1, the error in tenths; a NaN compares false.
OutsideDeadBand(angularError) ==
    IF angularError.fin THEN Abs(angularError.v) > 1 ELSE IsInf(angularError)

\* An angular velocity in rad/s as a payload in tenths of rad/s.
Tenths(d) == IF d.fin THEN Fin(10 * d.v) ELSE d

\* A feedback message of the commanded quantity instead of the other one.
FeedbackOfCommand(angvel) ==
    IF opmode = "ForceCmd" THEN [topic |-> "force", data |-> Fin(desiredThrust)]
    ELSE [topic |-> "ang_vel", data |-> angvel]

\* Lines 587-596: the feedback message.  An ang_vel payload is in tenths of
\* rad/s, a force payload in the units of thrust.
Feedback(angvel) ==
    IF opmode = "ForceCmd" THEN [topic |-> "ang_vel", data |-> angvel]
    ELSE [topic |-> "force", data |-> Fin(desiredThrust)]

\* Lines 555-602: the control law, the feedback message and the wrench.
\* currentAngular is what WorldAngularVelocity reports (tenths of rad/s);
\* with the link entity unset the optional is empty and the value read from
\* it is whatever the storage holds, which the same draw covers.
PreUpdateControl(currentAngular, dt) ==
    /\ simPc = "Control"
    /\ simPc' = "LinearVelocity"
    /\ IF ~velocityControl
       THEN LET angularError ==
                    AngularError(currentAngular, desiredPropellerAngVel)
                upd == PIDUpdate(propellerController, angularError, dt)
                called == OutsideDeadBand(angularError)
                torque == IF called THEN upd.cmd ELSE 0
            IN  /\ propellerController' =
                       IF called THEN upd.pid ELSE propellerController
                /\ jointVelocityCmd' = jointVelocityCmd
                /\ step' = [step EXCEPT
                      !.measured = <<currentAngular>>,
                      !.pidUpdate =
                          IF called
                          THEN Append(@, [error |-> angularError, dt |-> dt])
                          ELSE @,
                      !.published = Append(@, Feedback(Fin(currentAngular))),
                      !.wrench = Append(@,
                          [link |-> linkEntity,
                           force |-> jointAxis * desiredThrust,
                           torque |-> jointAxis * torque])]
       ELSE /\ propellerController' = propellerController
            /\ jointVelocityCmd' = <<desiredPropellerAngVel>>
            /\ step' = [step EXCEPT
                  !.velocityCmd = Append(@,
                      [created |-> jointVelocityCmd = <<>>,
                       data |-> desiredPropellerAngVel]),
                  !.published =
                      Append(@, Feedback(Tenths(desiredPropellerAngVel))),
                  !.wrench = Append(@,
                      [link |-> linkEntity,
                       force |-> jointAxis * desiredThrust,
                       torque |-> 0])]
    /\ UNCHANGED <<modelEntity, linkEntity, jointAxis, jointEntity, opmode,
                   mtx, thrust, propellerAngVel, enabled, velocityControl,
                   cmdMax, cmdMin, thrustCoefficient, thrustCoefficientSet,
                   wakeFraction, alpha1, alpha2, fluidDensity,
                   propellerDiameter, linearVelocity, subscribed,
                   desiredThrust, desiredPropellerAngVel, cmdVars, battery,
                   histVars>>

\* Lines 604-607: linearVelocity is written without the mutex.  With the
\* link entity unset Component() returns a null pointer and the access
\* through it is undefined: the read yields some value, or the process dies
\* (PreUpdateNullDereference).
PreUpdateLinearVelocity(length) ==
    /\ simPc = "LinearVelocity"
    /\ simPc' = "PostUpdate"
    /\ linearVelocity' = length
    /\ UNCHANGED <<modelEntity, linkEntity, jointAxis, jointEntity, opmode,
                   mtx, thrust, propellerAngVel, enabled, propellerController,
                   velocityControl, cmdMax, cmdMin, thrustCoefficient,
                   thrustCoefficientSet, wakeFraction, alpha1, alpha2,
                   fluidDensity, propellerDiameter, subscribed,
                   desiredThrust, desiredPropellerAngVel, cmdVars, hostVars,
                   histVars>>

PreUpdateNullDereference ==
    /\ simPc = "LinearVelocity"
    /\ linkEntity = "null"
    /\ simPc' = "crashed"
    /\ UNCHANGED <<privateVars, desiredThrust, desiredPropellerAngVel,
                   cmdVars, hostVars, histVars>>

---------------------------------------------------------------------------
(* Thruster::PostUpdate (lines 611-615).  comps are the BatterySoC         *)
(* components of the entity component manager it is given.                 *)

PostUpdate(comps) ==
    /\ simPc = "PostUpdate"
    /\ simPc' = "PreUpdate"
    /\ battery' = comps
    /\ enabled' = HasSufficientBattery(comps)
    /\ postRan' = TRUE
    /\ UNCHANGED <<modelEntity, linkEntity, jointAxis, jointEntity, opmode,
                   mtx, thrust, propellerAngVel, propellerController,
                   velocityControl, cmdMax, cmdMin, thrustCoefficient,
                   thrustCoefficientSet, wakeFraction, alpha1, alpha2,
                   fluidDensity, propellerDiameter, linearVelocity,
                   subscribed, desiredThrust, desiredPropellerAngVel,
                   cmdVars, jointVelocityCmd, step, sdf, jointInModel,
                   lastCmd, cmdFresh, prevStep>>

---------------------------------------------------------------------------
(* The command callbacks (lines 437-459), run by the transport thread once *)
(* Configure has subscribed one of them.                                   *)

\* Lines 439 and 451: a message arrives and std::lock_guard takes the mutex.
OnCmdLock(data) ==
    /\ cmdPc = "idle"
    /\ subscribed # "none"
    /\ simPc # "crashed"
    /\ mtx = "free"
    /\ mtx' = "cmd"
    /\ msg' = data
    /\ cmdPc' = "locked"
    /\ UNCHANGED <<modelEntity, linkEntity, jointAxis, jointEntity, opmode,
                   thrust, propellerAngVel, enabled, propellerController,
                   velocityControl, cmdMax, cmdMin, thrustCoefficient,
                   thrustCoefficientSet, wakeFraction, alpha1, alpha2,
                   fluidDensity, propellerDiameter, linearVelocity,
                   subscribed, simVars, hostVars, histVars>>

\* Lines 440-441 and 452-454: the clamped payload is stored, as thrust by
\* OnCmdThrust and as propellerAngVel by OnCmdAngVel.
OnCmdStore ==
    /\ cmdPc = "locked"
    /\ cmdPc' = "stored"
    /\ LET v == clamp(fixnan(msg), cmdMin, cmdMax)
       IN  IF subscribed = "OnCmdThrust"
           THEN thrust' = Newtons(v) /\ propellerAngVel' = propellerAngVel
           ELSE propellerAngVel' = Fin(v) /\ thrust' = thrust
    /\ UNCHANGED <<modelEntity, linkEntity, jointAxis, jointEntity, opmode,
                   mtx, enabled, propellerController, velocityControl,
                   cmdMax, cmdMin, thrustCoefficient, thrustCoefficientSet,
                   wakeFraction, alpha1, alpha2, fluidDensity,
                   propellerDiameter, linearVelocity, subscribed, simVars,
                   msg, hostVars, histVars>>

\* Lines 443-446, and the return: the lock and the message go.
OnCmdThrust ==
    /\ cmdPc = "stored"
    /\ subscribed = "OnCmdThrust"
    /\ LET r == ThrustToAngularVec(This, thrust)
       IN  /\ thrust' = thrust
           /\ propellerAngVel' = r.ret
           /\ thrustCoefficient' = r.thrustCoefficient
    /\ mtx' = "free"
    /\ cmdPc' = "idle"
    /\ msg' = Fin(0)
    /\ lastCmd' = <<msg>>
    /\ cmdFresh' = TRUE
    /\ UNCHANGED <<modelEntity, linkEntity, jointAxis, jointEntity, opmode,
                   enabled, propellerController, velocityControl, cmdMax,
                   cmdMin, thrustCoefficientSet, wakeFraction, alpha1,
                   alpha2, fluidDensity, propellerDiameter, linearVelocity,
                   subscribed, simVars, hostVars, sdf, jointInModel,
                   postRan, prevStep>>

\* A handler whose conversion recomputes the thrust coefficient first, as
\* ThrustToAngularVec does.
OnCmdAngVelRecomputes ==
    /\ cmdPc = "stored"
    /\ subscribed = "OnCmdAngVel"
    /\ propellerAngVel' = propellerAngVel
    /\ thrustCoefficient' =
          IF ~thrustCoefficientSet /\ AboveEpsilon(propellerAngVel)
          THEN UpdateThrustCoefficient(This) ELSE thrustCoefficient
    /\ thrust' = AngularVelToThrust(
                    [This EXCEPT !.thrustCoefficient = thrustCoefficient'],
                    propellerAngVel.v)
    /\ mtx' = "free"
    /\ cmdPc' = "idle"
    /\ msg' = Fin(0)
    /\ lastCmd' = <<msg>>
    /\ cmdFresh' = TRUE
    /\ UNCHANGED <<modelEntity, linkEntity, jointAxis, jointEntity, opmode,
                   enabled, propellerController, velocityControl, cmdMax,
                   cmdMin, thrustCoefficientSet, wakeFraction, alpha1,
                   alpha2, fluidDensity, propellerDiameter, linearVelocity,
                   subscribed, simVars, hostVars, sdf, jointInModel,
                   postRan, prevStep>>

\* Lines 456-459, and the return.
OnCmdAngVel ==
    /\ cmdPc = "stored"
    /\ subscribed = "OnCmdAngVel"
    /\ propellerAngVel' = propellerAngVel
    /\ thrust' = AngularVelToThrust(This, propellerAngVel.v)
    /\ mtx' = "free"
    /\ cmdPc' = "idle"
    /\ msg' = Fin(0)
    /\ lastCmd' = <<msg>>
    /\ cmdFresh' = TRUE
    /\ UNCHANGED <<modelEntity, linkEntity, jointAxis, jointEntity, opmode,
                   enabled, propellerController, velocityControl, cmdMax,
                   cmdMin, thrustCoefficient, thrustCoefficientSet,
                   wakeFraction, alpha1, alpha2, fluidDensity,
                   propellerDiameter, linearVelocity, subscribed, simVars,
                   hostVars, sdf, jointInModel, postRan, prevStep>>

---------------------------------------------------------------------------
(* The next-state relation over the inputs `in` the host and the transport *)
(* may hand over: in.docs and in.found for Configure, in.payloads for the  *)
(* messages, in.lengths and in.offsets for the link's velocities, and      *)
(* in.batteries for the BatterySoC components.                             *)

NextOver(in) ==
    \/ \E doc \in in.docs, found \in in.found : Configure(doc, found)
    \/ \E paused \in BOOLEAN : PreUpdate(paused)
    \/ PreUpdateLock
    \/ PreUpdateLocked
    \/ PreUpdateDerive
    \/ \E cur \in CurrentAngulars(desiredPropellerAngVel, in.offsets),
          dt \in StepSizes :
          PreUpdateControl(cur, dt)
    \/ \E length \in in.lengths : PreUpdateLinearVelocity(length)
    \/ PreUpdateNullDereference
    \/ \E comps \in in.batteries : PostUpdate(comps)
    \/ \E data \in in.payloads : OnCmdLock(data)
    \/ OnCmdStore
    \/ OnCmdThrust
    \/ OnCmdAngVel

\* Every configuration and measured rate, with few commands and the link
\* at rest.
ConfigInputs ==
    [docs |-> SdfDocs, found |-> BOOLEAN,
     payloads |-> {NaN, Fin(-10), Fin(2000)},
     lengths |-> {0}, offsets |-> RateOffsets,
     batteries |-> {<<>>, <<[parent |-> "model", soc |-> 0]>>}]
Next == NextOver(ConfigInputs)
Spec == Init /\ [][Next]_vars

\* The configurations of the two conversions, with the link moving.
ControlInputs ==
    [docs |-> ConversionSdfs, found |-> BOOLEAN,
     payloads |-> {NaN, Fin(10), Fin(-10), Fin(2000)},
     lengths |-> LinearVelocities, offsets |-> {0, 2},
     batteries |-> {<<>>, <<[parent |-> "model", soc |-> 0]>>}]
NextControl == NextOver(ControlInputs)
SpecControl == Init /\ [][NextControl]_vars

\* The configurations of the two conversions again, with two commands of
\* opposite sign and the battery always charged.
ConversionInputs ==
    [docs |-> ConversionSdfs, found |-> BOOLEAN,
     payloads |-> {Fin(10), Fin(-10)},
     lengths |-> LinearVelocities, offsets |-> {0},
     batteries |-> {<<>>}]
NextConversion == NextOver(ConversionInputs)
SpecConversion == Init /\ [][NextConversion]_vars

\* Every command under every pair of bounds, in both operation modes.
CommandInputs ==
    [docs |-> { [doc EXCEPT !.use_angvel_cmd = m]
                  : doc \in BoundsSdfs, m \in {<<>>, <<TRUE>>} },
     found |-> BOOLEAN,
     payloads |-> CmdPayloads,
     lengths |-> {0}, offsets |-> {0},
     batteries |-> {<<>>, <<[parent |-> "model", soc |-> 0]>>}]
NextCommand == NextOver(CommandInputs)
SpecCommand == Init /\ [][NextCommand]_vars

\* Every set of battery components, with few configurations.
GateInputs ==
    [docs |-> { PlainSdf,
                [PlainSdf EXCEPT !.use_angvel_cmd = <<TRUE>>,
                                 !.velocity_control = <<TRUE>>],
                [PlainSdf EXCEPT !.joint_name = <<>>] },
     found |-> BOOLEAN,
     payloads |-> {Fin(10)},
     lengths |-> {0}, offsets |-> {0},
     batteries |-> BatterySeqs]
NextGate == NextOver(GateInputs)
SpecGate == Init /\ [][NextGate]_vars

---------------------------------------------------------------------------
(* Properties *)

\* The instance was configured: Configure reached its end.
Configured == simPc # "Configure" /\ jointEntity = "joint"

\* A callback returns in this step.
CallbackReturns == cmdPc = "stored" /\ cmdPc' = "idle"

\* The positions of the simulation thread inside an executing PreUpdate,
\* and those after its control law has run.
InStep == simPc \in {"Lock", "Locked", "Derive", "Control", "LinearVelocity"}
AfterControl == simPc \in {"LinearVelocity", "PostUpdate", "crashed"}

\* The value a command with payload d is stored as: NaN and the two
\* infinities count as 0, and the result is brought into [cmdMin, cmdMax].
StoredAs(d) ==
    LET x == IF d.fin THEN d.v ELSE 0
    IN  IF x > cmdMax THEN cmdMax ELSE IF x < cmdMin THEN cmdMin ELSE x

\* The same when only NaN counts as 0: an infinity is above cmdMax or below
\* cmdMin.
StoredAsUnlessNaN(d) ==
    IF IsNaN(d) THEN StoredAs(d)
    ELSE IF d = PosInf THEN cmdMax
    ELSE IF d = NegInf THEN cmdMin ELSE StoredAs(d)

\* w is the root, rounded down and signed as t * c, of |t / k|.
IsSignedRoot(w, t, c, k) ==
    /\ w.fin
    /\ Abs(w.v) * Abs(w.v) <= Abs(Div(t, k))
    /\ Abs(Div(t, k)) < (Abs(w.v) + 1) * (Abs(w.v) + 1)
    /\ (w.v > 0 => t * c > 0)
    /\ (w.v < 0 => t * c <= 0)

(* C1, an infinity counting as 0: when a callback returns, OnCmdThrust   *)
(* has stored thrust = clamp(fixnan(v), cmdMin, cmdMax) and OnCmdAngVel    *)
(* has stored                                                              *)
(* propellerAngVel = clamp(fixnan(v), cmdMin, cmdMax), where a NaN and     *)
(* also an infinite v count as 0, a finite value above cmdMax is stored as *)
(* cmdMax and one below cmdMin as cmdMin; the derived quantity is the      *)
(* conversion of that stored value.                                        *)
C1_CommandStoredSanitized ==
    [][CallbackReturns =>
         /\ subscribed = "OnCmdThrust" =>
              /\ thrust' = Newtons(StoredAs(msg))
              /\ LET k == fluidDensity * thrustCoefficient'
                              * Pow4(propellerDiameter)
                 IN  k # 0 => IsSignedRoot(propellerAngVel', thrust',
                                           thrustCoefficient', k)
         /\ subscribed = "OnCmdAngVel" =>
              /\ propellerAngVel' = Fin(StoredAs(msg))
              /\ thrust' = thrustCoefficient * Pow4(propellerDiameter)
                             * Abs(StoredAs(msg)) * StoredAs(msg)
                             * fluidDensity]_vars

\* C1's case: a command above a configured cmdMax was stored as cmdMax.
C1_Witness ==
    /\ subscribed = "OnCmdThrust"
    /\ lastCmd = <<Fin(2000)>>
    /\ cmdMax = 40
    /\ thrust = Newtons(40)
    /\ propellerAngVel = Fin(500)

(* C1 as stated: every value above cmdMax, the infinite one included, is   *)
(* stored as exactly cmdMax, every value below cmdMin as cmdMin, and NaN   *)
(* as the clamped value of 0.                                              *)
C1_AboveMaxStoredAsMax ==
    [][CallbackReturns =>
         /\ subscribed = "OnCmdThrust" =>
              thrust' = Newtons(StoredAsUnlessNaN(msg))
         /\ subscribed = "OnCmdAngVel" =>
              propellerAngVel' = Fin(StoredAsUnlessNaN(msg))]_vars

\* Some BatterySoC component of the model entity reports a charge <= 0.
OwnedDepleted(comps) ==
    \E k \in DOMAIN comps :
        comps[k].parent = modelEntity /\ comps[k].soc <= 0

\* The current PreUpdate call executed the control step to its end: one
\* feedback message and one wrench.
StepCompleted ==
    /\ step.ran
    /\ Len(step.published) = 1
    /\ Len(step.wrench) = 1

(* C2: an unpaused PreUpdate executes the control step if and only if the  *)
(* most recent PostUpdate found no battery reading of the model entity     *)
(* <= 0, or no PostUpdate has run yet; a paused one never does.  A step    *)
(* that has started runs to its end whatever the readings the following    *)
(* PostUpdate sees: that PostUpdate only decides about the next step.      *)
C2_GateDecidesNextStep ==
    /\ (InStep \/ simPc \in {"PostUpdate", "crashed"}) =>
          (step.ran <=> ~step.paused /\ (~postRan \/ ~OwnedDepleted(battery)))
    /\ InStep => step.ran /\ enabled
    /\ simPc \in {"PostUpdate", "PreUpdate"} /\ step.ran => StepCompleted

\* C2's case: the step completed in the iteration whose PostUpdate found
\* the battery depleted.
C2_Witness ==
    /\ simPc = "PreUpdate"
    /\ StepCompleted
    /\ OwnedDepleted(battery)
    /\ ~enabled

\* A PreUpdate call returns at one of its two early returns in this step.
PreUpdateReturnsEarly == simPc = "PreUpdate" /\ simPc' = "PostUpdate"

(* C3: while the enabled flag is false a PreUpdate call returns at once:   *)
(* it applies no wrench, publishes no feedback, writes no joint velocity   *)
(* setpoint and does not call the PID update.                              *)
C3_DisabledStepDoesNothing ==
    [][simPc = "PreUpdate" /\ simPc' # "PreUpdate" /\ ~enabled =>
         /\ PreUpdateReturnsEarly
         /\ step'.wrench = <<>>
         /\ step'.published = <<>>
         /\ step'.velocityCmd = <<>>
         /\ step'.pidUpdate = <<>>
         /\ UNCHANGED <<jointVelocityCmd, propellerController>>]_vars

\* C3's case: an unpaused PreUpdate found the flag false while a command
\* was stored, and did nothing.
C3_Witness ==
    /\ simPc = "PostUpdate"
    /\ ~enabled
    /\ ~step.paused
    /\ thrust # 0
    /\ step.wrench = <<>>

(* C4: PostUpdate evaluates the battery also while the controller is       *)
(* disabled: whenever it finds every reading of the model entity > 0 the   *)
(* enabled flag is true afterwards, the next unpaused PreUpdate executes   *)
(* the control step, and the thrust that step applies is the stored one,   *)
(* which is the last command's also when it arrived while disabled.        *)
C4_AutoRecovers ==
    /\ [](postRan /\ ~OwnedDepleted(battery) => enabled)
    /\ [](InStep \/ simPc = "PostUpdate" =>
            (postRan /\ ~OwnedDepleted(battery) /\ ~step.paused => step.ran))
    /\ [][simPc = "Locked" /\ simPc' = "Derive" =>
            /\ desiredThrust' = thrust
            /\ (subscribed = "OnCmdThrust" /\ lastCmd # <<>> =>
                  thrust = Newtons(StoredAs(lastCmd[1])))]_vars
    /\ [](simPc = "PostUpdate" /\ step.ran =>
            step.wrench = <<[link |-> linkEntity,
                             force |-> jointAxis * desiredThrust,
                             torque |-> step.wrench[1].torque]>>)

\* C4's case: the step before was skipped because the controller was
\* disabled, a command arrived meanwhile, and this step applied it.
C4_Witness ==
    /\ simPc = "PostUpdate"
    /\ prevStep = "disabled"
    /\ step.ran
    /\ step.fresh
    /\ step.cmd = <<Fin(10)>>
    /\ Len(step.wrench) = 1
    /\ step.wrench[1].force = Newtons(10)

(* C5: HasSufficientBattery is false if and only if some battery reading   *)
(* whose parent is the model entity has a charge <= 0; with no reading of  *)
(* the model entity it is true, and the readings of other entities never   *)
(* matter.                                                                 *)
C5_GateIffOwnedDepleted ==
    postRan =>
       /\ enabled <=> ~OwnedDepleted(battery)
       /\ (\A k \in DOMAIN battery : battery[k].parent # modelEntity) => enabled

\* C5's case: two readings of the model entity, the depleted one first and
\* a charged one after it, and the gate is closed.
C5_Witness ==
    /\ postRan
    /\ Len(battery) = 2
    /\ battery[1] = [parent |-> "model", soc |-> 0]
    /\ battery[2] = [parent |-> "model", soc |-> 1]
    /\ ~enabled

\* The current PreUpdate call has passed its control law.
StepDone == step.ran /\ simPc \in {"LinearVelocity", "PostUpdate", "PreUpdate", "crashed"}

(* C6: every executed control step calls Publish exactly once, with the    *)
(* quantity complementary to the command: in ForceCmd mode the angular     *)
(* velocity (the measured rate under PID control, the commanded angular    *)
(* velocity under velocity control), in AngVelCmd mode the commanded       *)
(* thrust; a PreUpdate that returns early publishes nothing.  The message  *)
(* goes out also when the value is the one of the step before.             *)
C6_OneComplementaryFeedback ==
    /\ StepDone =>
         step.published =
            <<IF opmode = "ForceCmd"
              THEN [topic |-> "ang_vel",
                    data |-> IF velocityControl
                             THEN Tenths(desiredPropellerAngVel)
                             ELSE Fin(step.measured[1])]
              ELSE [topic |-> "force", data |-> Fin(desiredThrust)]>>
    /\ ~step.ran => step.published = <<>>

\* C6's case: a second step in a row, with no command in between, published
\* the same commanded thrust again.
C6_Witness ==
    /\ simPc = "PostUpdate"
    /\ prevStep = "ran"
    /\ step.ran
    /\ ~step.fresh
    /\ step.cmd = <<Fin(10)>>
    /\ opmode = "AngVelCmd"
    /\ desiredThrust # 0
    /\ step.published = <<[topic |-> "force", data |-> Fin(desiredThrust)]>>

(* C7: under velocity control the first executed control step after        *)
(* OnCmdAngVel received w writes clamp(fixnan(w), cmdMin, cmdMax) as the   *)
(* joint velocity setpoint, applies zero torque and does not call the PID  *)
(* update, whatever the configuration of the thrust coefficient.           *)
C7_SetpointIsCommandedAngVel ==
    StepDone /\ velocityControl /\ subscribed = "OnCmdAngVel" /\ step.fresh =>
        /\ Len(step.velocityCmd) = 1
        /\ step.velocityCmd[1].data = Fin(StoredAs(step.cmd[1]))
        /\ jointVelocityCmd = <<Fin(StoredAs(step.cmd[1]))>>
        /\ step.wrench[1].torque = 0
        /\ step.pidUpdate = <<>>

\* The PID holds a gain that is not zero.
NonzeroGains ==
    \/ propellerController.pGain # 0
    \/ propellerController.iGain # 0
    \/ propellerController.dGain # 0

(* C8: under PID control every executed control step of a configured       *)
(* instance, with error = currentAngular - commanded angular velocity:     *)
(* with |error| <= 0.1 it does not call the PID update and applies zero    *)
(* torque; with |error| > 0.1 it calls the PID update once with the error  *)
(* and applies its result, which is not zero when the gains are not zero.  *)
C8_DeadBandThenNonzeroTorque ==
    StepDone /\ Configured /\ ~velocityControl =>
        LET angularError ==
                AngularError(step.measured[1], desiredPropellerAngVel)
        IN  IF OutsideDeadBand(angularError)
            THEN /\ Len(step.pidUpdate) = 1
                 /\ step.pidUpdate[1].error = angularError
                 /\ (NonzeroGains => step.wrench[1].torque # 0)
            ELSE /\ step.pidUpdate = <<>>
                 /\ step.wrench[1].torque = 0

\* The bounds the elements of doc ask for, over the defaults.
EffectiveBounds(doc) ==
    <<IF HasElement(doc, "min_thrust_cmd")
      THEN Get(doc, "min_thrust_cmd") ELSE -1000,
      IF HasElement(doc, "max_thrust_cmd")
      THEN Get(doc, "max_thrust_cmd") ELSE 1000>>

(* C9: Configure leaves cmdMin <= cmdMax for every combination of present  *)
(* and absent max_thrust_cmd and min_thrust_cmd: when the effective max is *)
(* below the effective min both bounds are the defaults (-1000, 1000),     *)
(* otherwise they are the effective values; and the bounds never change    *)
(* after Configure.                                                        *)
C9_BoundsOrderedAndFixed ==
    /\ [](cmdMin <= cmdMax)
    /\ [](Configured =>
            <<cmdMin, cmdMax>> =
               IF EffectiveBounds(sdf)[2] < EffectiveBounds(sdf)[1]
               THEN <<-1000, 1000>> ELSE EffectiveBounds(sdf))
    /\ [][simPc # "Configure" => UNCHANGED <<cmdMin, cmdMax>>]_vars

\* C9's case: a max_thrust_cmd below the default minimum, alone, is not
\* used, and commands have been stored under the default bounds since.
C9_Witness ==
    /\ Configured
    /\ sdf.max_thrust_cmd = <<-2000>>
    /\ sdf.min_thrust_cmd = <<>>
    /\ cmdMin = -1000
    /\ cmdMax = 1000
    /\ lastCmd = <<Fin(2000)>>

\* Configure returned at one of its two fatal errors.
ConfigureFailed ==
    simPc # "Configure" /\ (~HasElement(sdf, "joint_name") \/ ~jointInModel)

(* C10: after a Configure that failed fatally (no joint_name element, or   *)
(* the joint not found in the model) no PreUpdate applies a wrench,        *)
(* publishes feedback or writes a joint velocity setpoint.                 *)
C10_FailedConfigureIsInert ==
    ConfigureFailed =>
        /\ step.wrench = <<>>
        /\ step.published = <<>>
        /\ step.velocityCmd = <<>>

\* The thrust the last command that arrived before the snapshot asks for.
CommandedThrust ==
    IF step.cmd = <<>> THEN 0 ELSE Newtons(StoredAs(step.cmd[1]))

(* C11: the stored thrust changes only in a step of a command callback,    *)
(* never in a step of PreUpdate or PostUpdate; and in ForceCmd mode the    *)
(* force an executed control step applies is clamp(fixnan(v), cmdMin,      *)
(* cmdMax) along the joint axis for the last command v that arrived before *)
(* its snapshot, 0 when none did, however many steps were executed, paused *)
(* or skipped since it arrived.                                            *)
C11_LastCommandHeld ==
    /\ [][thrust' # thrust => cmdPc' # cmdPc /\ simPc' = simPc]_vars
    /\ [](StepDone /\ subscribed # "OnCmdAngVel" =>
            /\ desiredThrust = CommandedThrust
            /\ step.wrench[1].force = jointAxis * CommandedThrust
            /\ (Configured => step.wrench[1].force = CommandedThrust))

\* C11's case: a command above cmdMax, not followed by another, is applied
\* as cmdMax by a step that follows a paused one and an executed one.
C11_Witness ==
    /\ simPc = "PostUpdate"
    /\ Configured
    /\ prevStep = "paused"
    /\ step.ran
    /\ ~step.fresh
    /\ step.cmd = <<Fin(2000)>>
    /\ cmdMax = 40
    /\ step.wrench[1].force = Newtons(40)

\* The sign of a double: 1, -1, 0, and for a NaN none of them.
SignOf(d) == IF d.fin THEN Sign(d.v) ELSE IF IsNaN(d) THEN 2 ELSE d.v

\* This step is a call of ThrustToAngularVec(thrust) whose result is stored
\* in propellerAngVel: the end of OnCmdThrust, or PreUpdate's line 550.
ThrustToAngularVecCalled ==
    \/ CallbackReturns /\ subscribed = "OnCmdThrust"
    \/ simPc = "Derive" /\ simPc' = "Control"

(* C12: for every thrust t and thrust coefficient c the sign of            *)
(* ThrustToAngularVec(t) is sign(t * c), c being the coefficient the call  *)
(* divides by, and the result is zero when t = 0.                          *)
C12_SignOfAngularVelocity ==
    [][ThrustToAngularVecCalled =>
         /\ SignOf(propellerAngVel') = Sign(thrust * thrustCoefficient')
         /\ (thrust = 0 => propellerAngVel' = Fin(0))]_vars

\* Angular velocities of the round trips, in rad/s; their thrusts are the
\* thrusts whose square root is exact.
RoundTripAngVels == {-2500, -125, -10, -1, 0, 1, 10, 125, 2500}

\* The object with its thrust coefficient held fixed: no call recomputes it.
FixedCoefficient == [This EXCEPT !.thrustCoefficientSet = TRUE]

\* Both round trips, for the parameters of the current state.
RoundTripsHold ==
    thrustCoefficient # 0 =>
       \A w \in RoundTripAngVels :
          LET t == AngularVelToThrust(FixedCoefficient, w)
              back == ThrustToAngularVec(FixedCoefficient, t)
          IN  /\ back.ret = Fin(w)
              /\ back.thrustCoefficient = thrustCoefficient
              /\ AngularVelToThrust(FixedCoefficient, back.ret.v) = t

(* C13: with the thrust coefficient held fixed at a nonzero c of either    *)
(* sign, ThrustToAngularVec(AngularVelToThrust(w)) = w for every angular   *)
(* velocity w, and AngularVelToThrust(ThrustToAngularVec(t)) = t for every *)
(* thrust t whose square root is exact, the thrusts AngularVelToThrust(w): *)
(* this for every coefficient, density and diameter the object comes to    *)
(* hold.  So a step of a thruster with a configured coefficient derives    *)
(* from a commanded angular velocity that same angular velocity.           *)
C13_RoundTrip ==
    /\ RoundTripsHold
    /\ StepDone /\ subscribed = "OnCmdAngVel" /\ thrustCoefficientSet
         /\ thrustCoefficient # 0 /\ step.cmd # <<>> =>
            desiredPropellerAngVel = Fin(StoredAs(step.cmd[1]))

\* C13's case: under a negative coefficient a step derived the commanded
\* negative angular velocity back from its positive thrust.
C13_Witness ==
    /\ StepDone
    /\ subscribed = "OnCmdAngVel"
    /\ thrustCoefficientSet
    /\ thrustCoefficient = -1
    /\ step.cmd = <<Fin(-10)>>
    /\ desiredThrust = 100
    /\ desiredPropellerAngVel = Fin(-10)

\* The stored pair agrees under the current thrust coefficient: the thrust
\* is the conversion of the angular velocity, exactly, or the angular
\* velocity is the signed root of the thrust as the grid rounds it.
StoredPairConsistent ==
    LET k == fluidDensity * thrustCoefficient * Pow4(propellerDiameter)
    IN  /\ propellerAngVel.fin
        /\ \/ thrust = AngularVelToThrust(This, propellerAngVel.v)
           \/ IsSignedRoot(propellerAngVel, thrust, thrustCoefficient, k)

(* C14: whenever the mutex is free and the thrust coefficient c is not     *)
(* zero, the stored thrust and propellerAngVel agree under c:              *)
(* thrust = c * propellerDiameter^4 * |propellerAngVel| * propellerAngVel  *)
(* * fluidDensity, up to the rounding of the quotient and the root;        *)
(* whichever field a command set, the other one was recomputed before the  *)
(* lock was released.                                                      *)
C14_StoredPairConsistent ==
    mtx = "free" /\ thrustCoefficient # 0 => StoredPairConsistent

\* C14's case: a commanded angular velocity of -10 was stored with its
\* thrust under coefficient 1, and a step has since recomputed the
\* coefficient to 4 and the angular velocity to -5 with it.
C14_Witness ==
    /\ mtx = "free"
    /\ subscribed = "OnCmdAngVel"
    /\ lastCmd = <<Fin(-10)>>
    /\ thrustCoefficient = 4
    /\ thrust = -100
    /\ propellerAngVel = Fin(-5)

\* The simulation thread is taking its snapshot; a callback is between
\* taking the mutex and its return.
InSnapshot == simPc \in {"Locked", "Derive"}
InCallback == cmdPc \in {"locked", "stored"}

(* C15: the pair of thrust and angular velocity a control step uses is not *)
(* torn.  No callback is between its lock and its return while the step    *)
(* takes its snapshot, so the step never sees one field of a command       *)
(* without the other and no command changes the stored thrust between the  *)
(* step's two reads; and when the snapshot ends both of its values are     *)
(* those of the stored pair of that moment.                                *)
C15_SnapshotNotTorn ==
    /\ [](~(InSnapshot /\ InCallback))
    /\ [](simPc = "Derive" => desiredThrust = thrust)
    /\ [][simPc = "Derive" /\ simPc' = "Control" =>
            /\ desiredThrust' = thrust'
            /\ desiredPropellerAngVel' = propellerAngVel'
            /\ desiredPropellerAngVel' =
                  ThrustToAngularVec(This, desiredThrust).ret]_vars

\* C15's case: a callback has stored the thrust of its command and not yet
\* the angular velocity, and the step is waiting for the mutex.
C15_Witness ==
    /\ simPc = "Lock"
    /\ cmdPc = "stored"
    /\ mtx = "cmd"
    /\ subscribed = "OnCmdThrust"
    /\ thrust = Newtons(10)
    /\ propellerAngVel = Fin(0)

\* The simulation thread is at a call into the host: the joint velocity
\* setpoint, the feedback message and the wrench (Control), or the linear
\* velocity query (LinearVelocity).  The pose queries of lines 536-543
\* belong to the step that ends waiting at Lock.
AtHostCall == simPc \in {"Lock", "Control", "LinearVelocity"}

(* C16: the simulation thread holds the mutex exactly while it reads the   *)
(* stored thrust and derives the angular velocity, never at a call into    *)
(* the host; so while a step is at such a call an idle callback of a       *)
(* subscribed instance can take the lock.                                  *)
C16_LockOnlyForSnapshot ==
    /\ mtx = "sim" <=> InSnapshot
    /\ AtHostCall => mtx # "sim"
    /\ simPc \in {"Control", "LinearVelocity"} /\ cmdPc = "idle"
         /\ subscribed # "none" => ENABLED OnCmdLock(Fin(0))

\* C16's case: a callback took the lock while the step was between its
\* snapshot and its calls into the host.
C16_Witness ==
    /\ simPc = "Control"
    /\ cmdPc = "locked"
    /\ mtx = "cmd"
    /\ step.ran

\* The callback is about to run ThrustToAngularVec with a coefficient that
\* is recomputed, which reads linearVelocity (line 488), and the simulation
\* thread is about to assign linearVelocity (line 605): both steps are
\* enabled, and the writer does not hold the mutex.
LinearVelocityRace ==
    /\ simPc = "LinearVelocity"
    /\ mtx # "sim"
    /\ cmdPc = "stored"
    /\ subscribed = "OnCmdThrust"
    /\ ~thrustCoefficientSet
    /\ AboveEpsilon(propellerAngVel)

(* C17: thrust, propellerAngVel, thrustCoefficient and linearVelocity are  *)
(* accessed only under the mutex: in no reachable state does the           *)
(* simulation thread write one of them while the command thread reads or   *)
(* writes it without mutual exclusion.                                     *)
C17_SharedAccessUnderMutex == ~LinearVelocityRace

(* C18: no step of the OnCmdAngVel handler changes thrustCoefficient,      *)
(* whatever the payload and the state; once Configure has returned the     *)
(* coefficient changes only in a call of ThrustToAngularVec, at the end of *)
(* OnCmdThrust or in PreUpdate's snapshot.                                 *)
C18_AngVelPathKeepsCoefficient ==
    /\ [][cmdPc' # cmdPc /\ subscribed = "OnCmdAngVel" =>
            thrustCoefficient' = thrustCoefficient]_vars
    /\ [][thrustCoefficient' # thrustCoefficient /\ simPc # "Configure" =>
            ThrustToAngularVecCalled]_vars

\* C18's case: OnCmdAngVel has returned in a state in which a recomputation
\* would have changed the coefficient, and the thrust it stored is the one
\* of the unchanged coefficient.
C18_Witness ==
    /\ cmdPc = "idle"
    /\ cmdFresh
    /\ subscribed = "OnCmdAngVel"
    /\ ~thrustCoefficientSet
    /\ AboveEpsilon(propellerAngVel)
    /\ propellerAngVel.fin
    /\ linearVelocity # 0
    /\ UpdateThrustCoefficient(This) # thrustCoefficient
    /\ thrust = AngularVelToThrust(This, propellerAngVel.v)
    /\ thrust # 0

\* Configure read a thrust_coefficient element (lines 205-210).
CoefficientConfigured ==
    /\ simPc # "Configure"
    /\ HasElement(sdf, "joint_name")
    /\ HasElement(sdf, "thrust_coefficient")

(* C19: a thrust coefficient supplied at configuration is the coefficient  *)
(* after any sequence of commands and steps; after Configure the           *)
(* coefficient changes only in a call made while it is not fixed by the    *)
(* configuration and the stored angular velocity is above epsilon in       *)
(* magnitude; and a call made with a stored angular velocity of zero, or a *)
(* NaN, recomputes nothing, so nothing is divided by it.                   *)
C19_CoefficientRecomputedOnlyWhenAllowed ==
    /\ [](CoefficientConfigured =>
            /\ thrustCoefficientSet
            /\ thrustCoefficient = Get(sdf, "thrust_coefficient"))
    /\ [][thrustCoefficient' # thrustCoefficient /\ simPc # "Configure" =>
            ~thrustCoefficientSet /\ AboveEpsilon(propellerAngVel)]_vars
    /\ [](\A w \in {Fin(0), NaN} :
            ThrustToAngularVec([This EXCEPT !.propellerAngVel = w],
                               thrust).thrustCoefficient
               = thrustCoefficient)

\* C19's case: a configured coefficient of -1 is still the coefficient
\* after a command and two steps with the link moving, where a
\* recomputation would have given another value.
C19_Witness ==
    /\ CoefficientConfigured
    /\ thrustCoefficient = -1
    /\ StepDone
    /\ prevStep = "ran"
    /\ linearVelocity # 0
    /\ propellerAngVel.fin
    /\ propellerAngVel.v # 0
    /\ UpdateThrustCoefficient(This) # thrustCoefficient

(* C20: after a Configure with velocity control off the PID holds the      *)
(* p_gain of the configuration when the element is present and 0.1 when    *)
(* not, and an integral and a derivative gain of 0 whether or not i_gain   *)
(* and d_gain are present: the two elements are read only when absent, and *)
(* what is read then is 0.                                                 *)
C20_OnlyPGainConfigured ==
    Configured /\ ~velocityControl =>
        /\ propellerController.pGain =
              (IF HasElement(sdf, "p_gain") THEN Get(sdf, "p_gain") ELSE 1)
        /\ propellerController.iGain = 0
        /\ propellerController.dGain = 0

\* C20's case: all three gains are configured, the PID has been updated,
\* and only the proportional gain is the configured one.
C20_Witness ==
    /\ Configured
    /\ ~velocityControl
    /\ sdf.p_gain = <<5>>
    /\ sdf.i_gain = <<3>>
    /\ sdf.d_gain = <<3>>
    /\ step.pidUpdate # <<>>
    /\ propellerController.pGain = 5
    /\ propellerController.iGain = 0
    /\ propellerController.dGain = 0

\* A PreUpdate call made with _info.paused set leaves its position in this
\* step.
PausedPreUpdateCall == simPc = "PreUpdate" /\ simPc' # "PreUpdate" /\ step'.paused

(* C21: a PreUpdate call made while the simulation is paused changes       *)
(* nothing, whatever the enabled flag and the stored command are: it       *)
(* returns at once, applies no wrench, publishes no feedback, writes no    *)
(* joint velocity setpoint, does not call the PID update, and leaves       *)
(* thrust, propellerAngVel, thrustCoefficient, linearVelocity and the      *)
(* enabled flag as they were.                                              *)
C21_PausedStepChangesNothing ==
    [][PausedPreUpdateCall =>
         /\ PreUpdateReturnsEarly
         /\ ~step'.ran
         /\ step'.wrench = <<>>
         /\ step'.published = <<>>
         /\ step'.velocityCmd = <<>>
         /\ step'.pidUpdate = <<>>
         /\ UNCHANGED <<thrust, propellerAngVel, thrustCoefficient,
                        linearVelocity, enabled, mtx, jointVelocityCmd,
                        propellerController>>]_vars

\* C21's case: a paused PreUpdate returned while the flag was true and a
\* nonzero command was stored, so that an unpaused call would have run the
\* control step.
C21_Witness ==
    /\ simPc = "PostUpdate"
    /\ step.paused
    /\ ~step.ran
    /\ enabled
    /\ Configured
    /\ thrust # 0
    /\ step.wrench = <<>>
    /\ step.published = <<>>

====
